---- MODULE Spec2Model ----
(***************************************************************************)
(* A model of the drawing relay server (server/src/main.rs): the shared    *)
(* registry `users`, the identifier counter NEXT_USER_ID, the per-         *)
(* connection task connect_user with its read loop, the spawned delivery   *)
(* task, send_user_message (decode, re-encode, fan-out under the read      *)
(* lock) and user_disconnected.                                            *)
(***************************************************************************)
EXTENDS Integers, Sequences, FiniteSets, TLC

(***************************************************************************)
(* Bounds of the model.                                                    *)
(***************************************************************************)
\* number of connections the transport hands to connect_user
MaxConns == 3
\* number of inbound frames the clients send altogether
MaxFrames == 2
\* number of transport write failures altogether
MaxWriteErrs == 1

Conns == 1..MaxConns

(***************************************************************************)
(* JSON texts.  A text frame is modelled by the JSON value it spells: the  *)
(* kind of every literal is kept (the integer literal 0 and the literal    *)
(* 0.0 are different texts), and an object keeps its keys in the order and *)
(* number in which the text has them.  Only insignificant white space is   *)
(* abstracted away.                                                        *)
(***************************************************************************)
JInt(n) == [int |-> n]
JFloat(n) == [float |-> n]
JStr(s) == [str |-> s]
JArr(a) == [arr |-> a]
JObj(f) == [obj |-> f]
JNull == [null |-> TRUE]
\* a text that is not JSON at all
JGarbage == [garbage |-> TRUE]

IsInt(v) == "int" \in DOMAIN v
IsFloat(v) == "float" \in DOMAIN v
IsStr(v) == "str" \in DOMAIN v
IsArr(v) == "arr" \in DOMAIN v
IsObj(v) == "obj" \in DOMAIN v
IsNull(v) == "null" \in DOMAIN v

\* the members of a JSON object: how often a key occurs, and its value
KeyCount(f, key) == Cardinality({i \in DOMAIN f : f[i][1] = key})
KeyValue(f, key) == f[CHOOSE i \in DOMAIN f : f[i][1] = key][2]

(***************************************************************************)
(* Frames of the transport: warp::ws::Message.  to_str is Ok only for a    *)
(* text frame.                                                             *)
(***************************************************************************)
TextFrame(v) == [text |-> v]
BinaryFrame == [binary |-> TRUE]
IsText(msg) == "text" \in DOMAIN msg

(***************************************************************************)
(* Deserialization, as derived by serde for MessageType, DrawCommand and   *)
(* EraseCommand and driven by serde_json::from_str.                        *)
(***************************************************************************)
\* f64 accepts an integer or a fractional literal; its value is kept
IsF64(v) == IsInt(v) \/ IsFloat(v)
F64Value(v) == IF IsInt(v) THEN v.int ELSE v.float
\* mutant of IsU32: zero is refused
IsU32Positive(v) == IsInt(v) /\ v.int > 0

\* u32 accepts only an integer literal that is not negative (and below 2^32:
\* every integer literal of the model is, its numbers being below 2^31)
IsU32(v) == IsInt(v) /\ v.int >= 0
\* [f64; 2]
IsPoint(v) == IsArr(v) /\ Len(v.arr) = 2 /\ \A i \in 1..2 : IsF64(v.arr[i])
PointValue(v) == <<F64Value(v.arr[1]), F64Value(v.arr[2])>>
IsString(v) == IsStr(v)

\* the fields of the two structs, in declaration order
DrawFields == <<"prev", "cur", "color", "brush_size">>
EraseFields == <<"prev", "cur", "brush_size">>

FieldOk(name, v) ==
    CASE name = "prev" -> IsPoint(v)
      [] name = "cur" -> IsPoint(v)
      [] name = "color" -> IsString(v)
      [] name = "brush_size" -> IsU32(v)

\* A struct is read from a JSON object (every field exactly once and of its
\* type; a key that is no field is skipped) or from a JSON array holding the
\* fields in declaration order.
StructOk(fields, v) ==
    \/ /\ IsObj(v)
       /\ \A i \in DOMAIN fields :
            /\ KeyCount(v.obj, fields[i]) = 1
            /\ FieldOk(fields[i], KeyValue(v.obj, fields[i]))
    \/ /\ IsArr(v)
       /\ Len(v.arr) = Len(fields)
       /\ \A i \in DOMAIN fields : FieldOk(fields[i], v.arr[i])

StructField(fields, v, name) ==
    IF IsObj(v) THEN KeyValue(v.obj, name)
    ELSE v.arr[CHOOSE i \in DOMAIN fields : fields[i] = name]

DrawCommand(v) ==
    [type |-> "Draw",
     prev |-> PointValue(StructField(DrawFields, v, "prev")),
     cur |-> PointValue(StructField(DrawFields, v, "cur")),
     color |-> StructField(DrawFields, v, "color").str,
     brush_size |-> StructField(DrawFields, v, "brush_size").int]

EraseCommand(v) ==
    [type |-> "Erase",
     prev |-> PointValue(StructField(EraseFields, v, "prev")),
     cur |-> PointValue(StructField(EraseFields, v, "cur")),
     brush_size |-> StructField(EraseFields, v, "brush_size").int]

ClearEvent == [type |-> "Clear"]

Variants == {"Draw", "Clear", "Erase"}

\* mutant of Variant: a name that is no variant is read as Clear
VariantOrClear(name) == IF name \in Variants THEN name ELSE "Clear"

\* the variant a "type" names; a name that is no variant is an error
Variant(name) == IF name \in Variants THEN name ELSE "unknown"

DecodeError == [err |-> TRUE]
Decoded(e) == [ok |-> e]
IsOk(r) == "ok" \in DOMAIN r

\* #[serde(tag = "type", content = "data")]: an object with the key "type"
\* once, naming a variant, and the key "data" at most once; any other key is
\* skipped.  Draw and Erase need "data"; Clear takes none, or null.
MessageType(v) ==
    IF ~IsObj(v) THEN DecodeError
    ELSE IF KeyCount(v.obj, "type") # 1 \/ KeyCount(v.obj, "data") > 1 THEN DecodeError
    ELSE LET tag == KeyValue(v.obj, "type")
             hasData == KeyCount(v.obj, "data") = 1
             data == KeyValue(v.obj, "data")
         IN  IF ~IsStr(tag) THEN DecodeError
             ELSE IF Variant(tag.str) = "unknown" THEN DecodeError
             ELSE IF Variant(tag.str) = "Clear"
                  THEN IF ~hasData \/ IsNull(data) THEN Decoded(ClearEvent) ELSE DecodeError
             ELSE IF ~hasData THEN DecodeError
             ELSE IF Variant(tag.str) = "Draw"
                  THEN IF StructOk(DrawFields, data) THEN Decoded(DrawCommand(data)) ELSE DecodeError
             ELSE IF StructOk(EraseFields, data) THEN Decoded(EraseCommand(data)) ELSE DecodeError

\* serde_json::from_str of a text
from_str(s) == MessageType(s)

(***************************************************************************)
(* Serialization: serde_json::to_string of a MessageType.  An f64 is       *)
(* always written with a fraction, a u32 as an integer literal.            *)
(***************************************************************************)
\* mutant of PointText: a whole number is written without a fraction
PointTextShort(p) == JArr(<<JInt(p[1]), JInt(p[2])>>)

PointText(p) == JArr(<<JFloat(p[1]), JFloat(p[2])>>)

\* mutant of to_string: serialization fails and the text is String::new(),
\* the empty text
to_string_failed(e) == [empty |-> TRUE]

to_string(e) ==
    CASE e.type = "Draw" ->
           JObj(<< <<"type", JStr("Draw")>>,
                   <<"data", JObj(<< <<"prev", PointText(e.prev)>>,
                                     <<"cur", PointText(e.cur)>>,
                                     <<"color", JStr(e.color)>>,
                                     <<"brush_size", JInt(e.brush_size)>> >>)>> >>)
      [] e.type = "Erase" ->
           JObj(<< <<"type", JStr("Erase")>>,
                   <<"data", JObj(<< <<"prev", PointText(e.prev)>>,
                                     <<"cur", PointText(e.cur)>>,
                                     <<"brush_size", JInt(e.brush_size)>> >>)>> >>)
      [] e.type = "Clear" ->
           JObj(<< <<"type", JStr("Clear")>> >>)


(***************************************************************************)
(* The frames the clients of the model send.                               *)
(***************************************************************************)
Point(lit1, lit2) == JArr(<<lit1, lit2>>)

DrawText(data) == JObj(<< <<"type", JStr("Draw")>>, <<"data", data>> >>)

\* {"type":"Clear"}
ClearFrame == TextFrame(JObj(<< <<"type", JStr("Clear")>> >>))
\* {"type":"Draw","data":{"prev":[0,0],"cur":[1,1],"color":"#000000",
\*  "brush_size":4,"alpha":1}}: a Draw with a key "alpha" no schema has
DrawExtraFrame ==
    TextFrame(DrawText(JObj(<< <<"prev", Point(JInt(0), JInt(0))>>,
                               <<"cur", Point(JInt(1), JInt(1))>>,
                               <<"color", JStr("#000000")>>,
                               <<"brush_size", JInt(4)>>,
                               <<"alpha", JInt(1)>> >>)))
\* {"type":"Fill"}
UnknownFrame == TextFrame(JObj(<< <<"type", JStr("Fill")>> >>))
\* a Draw without "color"
MissingFrame ==
    TextFrame(DrawText(JObj(<< <<"prev", Point(JInt(0), JInt(0))>>,
                               <<"cur", Point(JInt(1), JInt(1))>>,
                               <<"brush_size", JInt(4)>> >>)))
\* a Draw whose brush_size is the literal 4.0
WrongTypeFrame ==
    TextFrame(DrawText(JObj(<< <<"prev", Point(JInt(0), JInt(0))>>,
                               <<"cur", Point(JInt(1), JInt(1))>>,
                               <<"color", JStr("#000000")>>,
                               <<"brush_size", JFloat(4)>> >>)))
\* a text that is not JSON
GarbageFrame == TextFrame(JGarbage)

Frames ==
    {ClearFrame, DrawExtraFrame, UnknownFrame, MissingFrame, WrongTypeFrame,
     GarbageFrame, BinaryFrame}

(***************************************************************************)
(* The state of the server.                                                *)
(***************************************************************************)
VARIABLES
    NEXT_USER_ID,   \* the static counter
    users,          \* the registry: identifier -> the connection whose channel the sender feeds
    readers,        \* the tasks holding a read guard of `users`
    rpc,            \* where each connect_user task stands
    user_id,        \* current_user_id of each connect_user task, 0 before fetch_add
    cur,            \* the inbound message a connect_user task is handling
    todo,           \* the entries the iteration of a fan-out has not visited yet
    wpc,            \* where each spawned delivery task stands
    queue,          \* the unbounded channel of each connection
    hand,           \* the message a delivery task is writing to its transport
    wire,           \* the messages written to the transport of each connection
    pushed,         \* history: every message sent into each channel
    decodeErrs,     \* history: the frames of each connection that did not decode
    pushFailed,     \* history: the sends that met a closed channel
    werrs,          \* history: the transport write failures of each connection
    nframes         \* the number of frames read so far

vars ==
    <<NEXT_USER_ID, users, readers, rpc, user_id, cur, todo, wpc, queue,
      hand, wire, pushed, decodeErrs, pushFailed, werrs, nframes>>

NoMsg == [none |-> TRUE]
IsMsg(m) == "none" \notin DOMAIN m

Init ==
    /\ NEXT_USER_ID = 1
    /\ users = <<>>
    /\ readers = {}
    /\ rpc = [c \in Conns |-> "start"]
    /\ user_id = [c \in Conns |-> 0]
    /\ cur = [c \in Conns |-> NoMsg]
    /\ todo = [c \in Conns |-> {}]
    /\ wpc = [c \in Conns |-> "none"]
    /\ queue = [c \in Conns |-> <<>>]
    /\ hand = [c \in Conns |-> NoMsg]
    /\ wire = [c \in Conns |-> <<>>]
    /\ pushed = [c \in Conns |-> <<>>]
    /\ decodeErrs = [c \in Conns |-> {}]
    /\ pushFailed = {}
    /\ werrs = [c \in Conns |-> 0]
    /\ nframes = 0

(***************************************************************************)
(* The registry and the channels.                                          *)
(***************************************************************************)
\* mutant of fetch_add: the counter is read and not advanced
fetch_add_stale(n) == n

\* AtomicUsize::fetch_add(1): the new value of the counter (it wraps at the
\* width of usize, which no run of the model comes near)
fetch_add(n) == n + 1

\* mutant of RegistryInsert: the entry is not stored
RegistryInsertNone(map, id, ch) == map

\* HashMap::insert
RegistryInsert(map, id, ch) ==
    [k \in DOMAIN map \cup {id} |-> IF k = id THEN ch ELSE map[k]]

\* mutant of RegistryRemove: the entry is left in the map
RegistryRemoveNone(map, id) == map

\* mutant of RegistryRemove: the map is cleared
RegistryRemoveAll(map, id) == <<>>

\* HashMap::remove
RegistryRemove(map, id) == [k \in DOMAIN map \ {id} |-> map[k]]

\* mutant of WriteLockFree: a write guard is granted beside read guards
WriteLockShared == TRUE

\* RwLock::write() is granted when no guard is held.  The write guards of
\* lines 72 and 114 each live for one statement, which is one step here, so
\* no state has a write guard held.
WriteLockFree == readers = {}

\* mutant of SenderAlive: the receiver takes an empty channel for a closed one
SenderGone(ch) == FALSE

\* The sender of a channel lives in connect_user until the insert moves it
\* into the registry, and then in the registry.
SenderAlive(ch) ==
    \/ rpc[ch] = "insert"
    \/ \E k \in DOMAIN users : users[k] = ch

\* The receiver of a channel lives as long as the delivery task owning it.
ReceiverAlive(ch) == wpc[ch] \in {"recv", "write"}

\* mutant of ChannelSend: the message goes to the front of the queue
ChannelSendFront(q, m) == <<m>> \o q

\* mutant of ChannelSend: the channel holds one message and drops the others
ChannelSendLossy(q, m) == IF q = <<>> THEN Append(q, m) ELSE q

\* UnboundedSender::send onto a channel whose receiver lives
ChannelSend(q, m) == Append(q, m)

\* mutant of IsOther: the originator is not skipped
IsOtherAlways(my_id, uid) == TRUE

\* the test of line 98
IsOther(my_id, uid) == my_id # uid

RECURSIVE Sum(_, _)
Sum(f, S) == IF S = {} THEN 0 ELSE LET x == CHOOSE y \in S : TRUE IN f[x] + Sum(f, S \ {x})

(***************************************************************************)
(* connect_user: identifier, channel and delivery task, registration.      *)
(***************************************************************************)
\* lines 55-70: fetch_add, the channel, the spawned delivery task.  The
\* connections are interchangeable: they are numbered in the order in which
\* their tasks reach line 55.
ConnectUser(c) ==
    /\ rpc[c] = "start"
    /\ \A d \in 1..(c - 1) : rpc[d] # "start"
    /\ user_id' = [user_id EXCEPT ![c] = NEXT_USER_ID]
    /\ NEXT_USER_ID' = fetch_add(NEXT_USER_ID)
    /\ wpc' = [wpc EXCEPT ![c] = "recv"]
    /\ rpc' = [rpc EXCEPT ![c] = "insert"]
    /\ UNCHANGED <<users, readers, cur, todo, queue, hand, wire, pushed,
                   decodeErrs, pushFailed, werrs, nframes>>

\* mutant of Insert: the session that registers is sent what another
\* connection has been sent so far
InsertReplay(c) ==
    /\ rpc[c] = "insert"
    /\ WriteLockFree
    /\ users' = RegistryInsert(users, user_id[c], c)
    /\ rpc' = [rpc EXCEPT ![c] = "read"]
    /\ queue' = [queue EXCEPT ![c] = pushed[IF c = 1 THEN 2 ELSE 1]]
    /\ pushed' = [pushed EXCEPT ![c] = pushed[IF c = 1 THEN 2 ELSE 1]]
    /\ UNCHANGED <<NEXT_USER_ID, readers, user_id, cur, todo, wpc, hand,
                   wire, decodeErrs, pushFailed, werrs, nframes>>

\* line 72: users.write().await.insert(current_user_id, message_sender)
Insert(c) ==
    /\ rpc[c] = "insert"
    /\ WriteLockFree
    /\ users' = RegistryInsert(users, user_id[c], c)
    /\ rpc' = [rpc EXCEPT ![c] = "read"]
    /\ UNCHANGED <<NEXT_USER_ID, readers, user_id, cur, todo, wpc, queue, hand,
                   wire, pushed, decodeErrs, pushFailed, werrs, nframes>>

(***************************************************************************)
(* The read loop of connect_user (lines 74-83).                            *)
(***************************************************************************)
\* mutant of Recv: one loop reads and writes, and does not read while a
\* write to the transport is under way
RecvBlocking(c, msg) ==
    /\ rpc[c] = "read"
    /\ wpc[c] # "write"
    /\ nframes' = nframes + 1
    /\ cur' = [cur EXCEPT ![c] = [frame |-> msg, fid |-> nframes + 1]]
    /\ rpc' = [rpc EXCEPT ![c] = "msg"]
    /\ UNCHANGED <<NEXT_USER_ID, users, readers, user_id, todo, wpc, queue,
                   hand, wire, pushed, decodeErrs, pushFailed, werrs>>

\* user_ws_receiver.next() yields Some(Ok(msg))
Recv(c, msg) ==
    /\ rpc[c] = "read"
    /\ nframes' = nframes + 1
    /\ cur' = [cur EXCEPT ![c] = [frame |-> msg, fid |-> nframes + 1]]
    /\ rpc' = [rpc EXCEPT ![c] = "msg"]
    /\ UNCHANGED <<NEXT_USER_ID, users, readers, user_id, todo, wpc, queue,
                   hand, wire, pushed, decodeErrs, pushFailed, werrs>>

\* user_ws_receiver.next() yields Some(Err(e)): break
RecvErr(c) ==
    /\ rpc[c] = "read"
    /\ rpc' = [rpc EXCEPT ![c] = "disc"]
    /\ UNCHANGED <<NEXT_USER_ID, users, readers, user_id, cur, todo, wpc,
                   queue, hand, wire, pushed, decodeErrs, pushFailed, werrs, nframes>>

\* user_ws_receiver.next() yields None: the loop ends
RecvEnd(c) ==
    /\ rpc[c] = "read"
    /\ rpc' = [rpc EXCEPT ![c] = "disc"]
    /\ UNCHANGED <<NEXT_USER_ID, users, readers, user_id, cur, todo, wpc,
                   queue, hand, wire, pushed, decodeErrs, pushFailed, werrs, nframes>>

(***************************************************************************)
(* send_user_message (lines 88-108).                                       *)
(***************************************************************************)
\* lines 89-91: msg.to_str() and serde_json::from_str
Parse(msg) == IF IsText(msg) THEN from_str(msg.text) ELSE DecodeError

\* lines 93-96 and 99: Message::text(&serialized)
Serialized(msg) == TextFrame(to_string(Parse(msg).ok))

\* mutant of AfterDecodeError: the read loop is left
AfterDecodeErrorBreak == "disc"

\* where the read loop goes on after a message that does not decode
AfterDecodeError == "read"

\* lines 89-96 and 105: decode and re-encode the message
Decode(c) ==
    /\ rpc[c] = "msg"
    /\ IF IsOk(Parse(cur[c].frame))
       THEN /\ rpc' = [rpc EXCEPT ![c] = "rlock"]
            /\ cur' = [cur EXCEPT ![c] = [msg |-> Serialized(cur[c].frame),
                                          frame |-> cur[c].frame,
                                          fid |-> cur[c].fid]]
            /\ UNCHANGED decodeErrs
       ELSE /\ rpc' = [rpc EXCEPT ![c] = AfterDecodeError]
            /\ decodeErrs' = [decodeErrs EXCEPT ![c] = @ \cup {cur[c].fid}]
            /\ cur' = [cur EXCEPT ![c] = NoMsg]
    /\ UNCHANGED <<NEXT_USER_ID, users, readers, user_id, todo, wpc, queue,
                   hand, wire, pushed, pushFailed, werrs, nframes>>

\* line 97: users.read().await.iter().  A read guard is granted whenever no
\* write guard is held, which is every state (see WriteLockFree); that
\* tokio lets no reader pass a waiting writer only removes runs.
ReadLock(c) ==
    /\ rpc[c] = "rlock"
    /\ readers' = readers \cup {c}
    /\ todo' = [todo EXCEPT ![c] = DOMAIN users]
    /\ rpc' = [rpc EXCEPT ![c] = "fanout"]
    /\ UNCHANGED <<NEXT_USER_ID, users, user_id, cur, wpc, queue, hand,
                   wire, pushed, decodeErrs, pushFailed, werrs, nframes>>

\* the message one fan-out sends: the text, and (history) where it comes from
Outbound(c) ==
    [msg |-> cur[c].msg, origin |-> user_id[c], fid |-> cur[c].fid,
     frame |-> cur[c].frame]

\* mutant of FanoutStep: the channel holds one message, and a send waits
\* until there is room
FanoutStepBounded(c, uid) ==
    /\ rpc[c] = "fanout"
    /\ uid \in todo[c]
    /\ todo' = [todo EXCEPT ![c] = @ \ {uid}]
    /\ IF IsOther(user_id[c], uid)
       THEN IF ReceiverAlive(users[uid])
            THEN /\ Len(queue[users[uid]]) < 1
                 /\ queue' = [queue EXCEPT ![users[uid]] = ChannelSend(@, Outbound(c))]
                 /\ pushed' = [pushed EXCEPT ![users[uid]] = Append(@, Outbound(c))]
                 /\ UNCHANGED pushFailed
            ELSE /\ pushFailed' = pushFailed \cup {<<uid, cur[c].fid>>}
                 /\ UNCHANGED <<queue, pushed>>
       ELSE UNCHANGED <<queue, pushed, pushFailed>>
    /\ UNCHANGED <<NEXT_USER_ID, users, readers, rpc, user_id, cur, wpc,
                   hand, wire, decodeErrs, werrs, nframes>>

\* lines 97-103: one turn of the loop, for the entry (uid, tx)
FanoutStep(c, uid) ==
    /\ rpc[c] = "fanout"
    /\ uid \in todo[c]
    /\ todo' = [todo EXCEPT ![c] = @ \ {uid}]
    /\ IF IsOther(user_id[c], uid)
       THEN IF ReceiverAlive(users[uid])
            THEN /\ queue' = [queue EXCEPT ![users[uid]] = ChannelSend(@, Outbound(c))]
                 /\ pushed' = [pushed EXCEPT ![users[uid]] = Append(@, Outbound(c))]
                 /\ UNCHANGED pushFailed
            ELSE /\ pushFailed' = pushFailed \cup {<<uid, cur[c].fid>>}
                 /\ UNCHANGED <<queue, pushed>>
       ELSE UNCHANGED <<queue, pushed, pushFailed>>
    /\ UNCHANGED <<NEXT_USER_ID, users, readers, rpc, user_id, cur, wpc,
                   hand, wire, decodeErrs, werrs, nframes>>

\* line 103: the loop is over, the read guard is dropped
FanoutDone(c) ==
    /\ rpc[c] = "fanout"
    /\ todo[c] = {}
    /\ readers' = readers \ {c}
    /\ cur' = [cur EXCEPT ![c] = NoMsg]
    /\ rpc' = [rpc EXCEPT ![c] = "read"]
    /\ UNCHANGED <<NEXT_USER_ID, users, user_id, todo, wpc, queue, hand,
                   wire, pushed, decodeErrs, pushFailed, werrs, nframes>>

(***************************************************************************)
(* user_disconnected (lines 110-115).                                      *)
(***************************************************************************)
\* line 114: users.write().await.remove(&my_id); connect_user returns
Remove(c) ==
    /\ rpc[c] = "disc"
    /\ WriteLockFree
    /\ users' = RegistryRemove(users, user_id[c])
    /\ rpc' = [rpc EXCEPT ![c] = "done"]
    /\ UNCHANGED <<NEXT_USER_ID, readers, user_id, cur, todo, wpc, queue, hand,
                   wire, pushed, decodeErrs, pushFailed, werrs, nframes>>

(***************************************************************************)
(* The delivery task (lines 62-70).                                        *)
(***************************************************************************)
\* rx.next() yields Some(message)
DeliverNext(c) ==
    /\ wpc[c] = "recv"
    /\ queue[c] # <<>>
    /\ hand' = [hand EXCEPT ![c] = Head(queue[c])]
    /\ queue' = [queue EXCEPT ![c] = Tail(@)]
    /\ wpc' = [wpc EXCEPT ![c] = "write"]
    /\ UNCHANGED <<NEXT_USER_ID, users, readers, rpc, user_id, cur, todo,
                   wire, pushed, decodeErrs, pushFailed, werrs, nframes>>

\* rx.next() yields None: the channel is empty and every sender is dropped
DeliverEnd(c) ==
    /\ wpc[c] = "recv"
    /\ queue[c] = <<>>
    /\ ~SenderAlive(c)
    /\ wpc' = [wpc EXCEPT ![c] = "done"]
    /\ UNCHANGED <<NEXT_USER_ID, users, readers, rpc, user_id, cur, todo,
                   queue, hand, wire, pushed, decodeErrs, pushFailed, werrs, nframes>>

\* user_ws_sender.send(message) succeeds
WriteOk(c) ==
    /\ wpc[c] = "write"
    /\ wire' = [wire EXCEPT ![c] = Append(@, hand[c])]
    /\ hand' = [hand EXCEPT ![c] = NoMsg]
    /\ wpc' = [wpc EXCEPT ![c] = "recv"]
    /\ UNCHANGED <<NEXT_USER_ID, users, readers, rpc, user_id, cur, todo,
                   queue, pushed, decodeErrs, pushFailed, werrs, nframes>>

\* mutant of AfterWriteError: the delivery task ends
AfterWriteErrorEnd == "done"

\* where the delivery task goes on after a failed write (lines 66-68)
AfterWriteError == "recv"

\* user_ws_sender.send(message) fails: the error is printed
WriteErr(c) ==
    /\ wpc[c] = "write"
    /\ werrs' = [werrs EXCEPT ![c] = @ + 1]
    /\ hand' = [hand EXCEPT ![c] = NoMsg]
    /\ wpc' = [wpc EXCEPT ![c] = AfterWriteError]
    /\ UNCHANGED <<NEXT_USER_ID, users, readers, rpc, user_id, cur, todo,
                   queue, wire, pushed, decodeErrs, pushFailed, nframes>>

(***************************************************************************)
(* The server.  The actions above are the code's; the bounds on the        *)
(* clients' frames and on the transport's failures are stated here.        *)
(***************************************************************************)
Next ==
    \E c \in Conns :
        \/ ConnectUser(c)
        \/ Insert(c)
        \/ \E msg \in Frames : nframes < MaxFrames /\ Recv(c, msg)
        \/ RecvErr(c)
        \/ RecvEnd(c)
        \/ Decode(c)
        \/ ReadLock(c)
        \/ \E uid \in todo[c] : FanoutStep(c, uid)
        \/ FanoutDone(c)
        \/ Remove(c)
        \/ DeliverNext(c)
        \/ DeliverEnd(c)
        \/ WriteOk(c)
        \/ Sum(werrs, Conns) < MaxWriteErrs /\ WriteErr(c)

Spec == Init /\ [][Next]_vars

(***************************************************************************)
(* The server under fair scheduling, within smaller bounds.  The tokio     *)
(* runtime runs every task that can take a step; its RwLock queues the     *)
(* waiting tasks in order, so a task waiting for the write lock gets it;   *)
(* and a write to the transport is taken to end, well or badly.  The       *)
(* clients owe nothing: no connection has to arrive, no frame has to be    *)
(* sent and no inbound stream has to end.                                  *)
(***************************************************************************)
LiveConns == 2
LiveFrames == 2

LiveNext ==
    \E c \in Conns :
        \/ c <= LiveConns /\ ConnectUser(c)
        \/ Insert(c)
        \/ \E msg \in Frames : nframes < LiveFrames /\ Recv(c, msg)
        \/ RecvErr(c)
        \/ RecvEnd(c)
        \/ Decode(c)
        \/ ReadLock(c)
        \/ \E uid \in todo[c] : FanoutStep(c, uid)
        \/ FanoutDone(c)
        \/ Remove(c)
        \/ DeliverNext(c)
        \/ DeliverEnd(c)
        \/ WriteOk(c)
        \/ Sum(werrs, Conns) < MaxWriteErrs /\ WriteErr(c)

Fairness ==
    \A c \in Conns :
        /\ SF_vars(Insert(c))
        /\ WF_vars(Decode(c))
        /\ WF_vars(ReadLock(c))
        /\ WF_vars(\E uid \in todo[c] : FanoutStep(c, uid))
        /\ WF_vars(FanoutDone(c))
        /\ SF_vars(Remove(c))
        /\ WF_vars(DeliverNext(c))
        /\ WF_vars(DeliverEnd(c))
        /\ WF_vars(WriteOk(c) \/ WriteErr(c))

LiveSpec == Init /\ [][LiveNext]_vars /\ Fairness

(***************************************************************************)
(* The server when only send_user_message is scheduled fairly: a task     *)
(* that is in it runs on, while any delivery task may stop for good at any *)
(* moment (a transport that takes no more writes).                         *)
(***************************************************************************)
BroadcastFairness ==
    \A c \in Conns :
        /\ WF_vars(Decode(c))
        /\ WF_vars(ReadLock(c))
        /\ WF_vars(\E uid \in todo[c] : FanoutStep(c, uid))
        /\ WF_vars(FanoutDone(c))

BroadcastSpec == Init /\ [][LiveNext]_vars /\ BroadcastFairness

(***************************************************************************)
(* The server with clients that send one more frame, all of them the same  *)
(* valid event, and a transport that takes every write: the runs in which  *)
(* the order of events at a recipient is at stake.                         *)
(***************************************************************************)
OrderFrames == 3

OrderNext ==
    \E c \in Conns :
        \/ ConnectUser(c)
        \/ Insert(c)
        \/ nframes < OrderFrames /\ Recv(c, ClearFrame)
        \/ RecvErr(c)
        \/ RecvEnd(c)
        \/ Decode(c)
        \/ ReadLock(c)
        \/ \E uid \in todo[c] : FanoutStep(c, uid)
        \/ FanoutDone(c)
        \/ Remove(c)
        \/ DeliverNext(c)
        \/ DeliverEnd(c)
        \/ WriteOk(c)

OrderSpec == Init /\ [][OrderNext]_vars

(***************************************************************************)
(* The server with clients that send valid events only: every Draw, Erase  *)
(* and Clear over a few field values, each spelt with its coordinates as   *)
(* fractional literals and as integer literals, keys in schema order.      *)
(***************************************************************************)
CodecConns == 3
CodecFrames == 1
MaxCoord == 1

Coords == 0..MaxCoord
Colors == {"#000000", "#ffffff"}
BrushSizes == {0, 4}
Points == Coords \X Coords

\* the values of MessageType over these field values
Events ==
    [type : {"Draw"}, prev : Points, cur : Points, color : Colors, brush_size : BrushSizes]
        \cup [type : {"Erase"}, prev : Points, cur : Points, brush_size : BrushSizes]
        \cup {ClearEvent}

\* the literal a client writes for the coordinate n
CoordLit(n, frac) == IF frac THEN JFloat(n) ELSE JInt(n)

\* the frame a client sends for the event e
EventFrame(e, frac) ==
    LET pt(p) == Point(CoordLit(p[1], frac), CoordLit(p[2], frac))
    IN  CASE e.type = "Draw" ->
               TextFrame(DrawText(JObj(<< <<"prev", pt(e.prev)>>,
                                          <<"cur", pt(e.cur)>>,
                                          <<"color", JStr(e.color)>>,
                                          <<"brush_size", JInt(e.brush_size)>> >>)))
          [] e.type = "Erase" ->
               TextFrame(JObj(<< <<"type", JStr("Erase")>>,
                                 <<"data", JObj(<< <<"prev", pt(e.prev)>>,
                                                   <<"cur", pt(e.cur)>>,
                                                   <<"brush_size", JInt(e.brush_size)>> >>)>> >>))
          [] e.type = "Clear" -> ClearFrame

EventFrames == {EventFrame(e, frac) : e \in Events, frac \in BOOLEAN}

CodecNext ==
    \E c \in Conns :
        \/ c <= CodecConns /\ ConnectUser(c)
        \/ Insert(c)
        \/ \E msg \in EventFrames : nframes < CodecFrames /\ Recv(c, msg)
        \/ RecvErr(c)
        \/ RecvEnd(c)
        \/ Decode(c)
        \/ ReadLock(c)
        \/ \E uid \in todo[c] : FanoutStep(c, uid)
        \/ FanoutDone(c)
        \/ Remove(c)
        \/ DeliverNext(c)
        \/ DeliverEnd(c)
        \/ WriteOk(c)

CodecSpec == Init /\ [][CodecNext]_vars

(***************************************************************************)
(* Properties.                                                             *)
(***************************************************************************)
\* the identifiers handed out so far
Assigned == {c \in Conns : user_id[c] # 0}

\* a session is registered from the insert of line 72 to the remove of line 114
Registered(c) == rpc[c] \in {"read", "msg", "rlock", "fanout", "disc"}

\* how many copies of the event read as frame number fid a channel was sent
CopiesOf(s, fid) == Cardinality({i \in DOMAIN s : s[i].fid = fid})

\* C1: while session k fans an event out, every registry entry the loop has
\* visited, other than k's own, was sent exactly one copy of the event, and
\* k's own channel and the entries not yet visited none; so when the loop
\* is over every other registered session has exactly one copy and k has
\* none.  No channel is ever sent an event twice, nor an event of its own
\* session.
C1_FanoutExactlyOnce ==
    /\ \A k \in Conns : rpc[k] = "fanout" =>
         \A uid \in DOMAIN users :
            /\ CopiesOf(pushed[users[uid]], cur[k].fid)
                 = IF uid = user_id[k] \/ uid \in todo[k] THEN 0 ELSE 1
            /\ \A i \in DOMAIN pushed[users[uid]] :
                 pushed[users[uid]][i].fid = cur[k].fid =>
                    /\ pushed[users[uid]][i].msg = cur[k].msg
                    /\ pushed[users[uid]][i].origin = user_id[k]
    /\ \A c \in Conns :
         /\ \A fid \in 1..nframes : CopiesOf(pushed[c], fid) <= 1
         /\ \A i \in DOMAIN pushed[c] : pushed[c][i].origin # user_id[c]

\* C1 witness: a fan-out is over with three sessions registered
C1_Witness ==
    \E k \in Conns :
        /\ rpc[k] = "fanout" /\ todo[k] = {}
        /\ Cardinality(DOMAIN users) = 3
        /\ \A c \in Conns \ {k} : CopiesOf(pushed[c], cur[k].fid) = 1

\* C2: once user_disconnected of a session has returned, its identifier is
\* in no registry and in no fan-out's iteration, and nothing is sent into
\* its channel any more.
C2_NoBroadcastAfterDeregister ==
    /\ [](\A c \in Conns : rpc[c] = "done" =>
            /\ user_id[c] \notin DOMAIN users
            /\ \A k \in Conns : user_id[c] \notin todo[k])
    /\ [][\A c \in Conns : rpc[c] = "done" => pushed'[c] = pushed[c]]_vars

\* C2 witness: a session is deregistered, and a fan-out that started later
\* is over and has reached another session
C2_Witness ==
    \E c, k, r \in Conns :
        /\ rpc[c] = "done"
        /\ rpc[k] = "fanout" /\ todo[k] = {}
        /\ r # c /\ r # k
        /\ CopiesOf(pushed[r], cur[k].fid) = 1
        /\ CopiesOf(pushed[c], cur[k].fid) = 0

\* what a delivery task has written, is writing and has still to write
Outgoing(c) == wire[c] \o (IF IsMsg(hand[c]) THEN <<hand[c]>> ELSE <<>>) \o queue[c]

\* the events of one originator stand in the order in which it read them
OrderedPerOrigin(s) ==
    \A i, j \in DOMAIN s : (i < j /\ s[i].origin = s[j].origin) => s[i].fid < s[j].fid

\* C3: the events of one originator are sent into and written out by every
\* recipient's delivery task in the order in which the originator read them.
C3_FifoPerOriginator ==
    \A r \in Conns :
        /\ OrderedPerOrigin(pushed[r])
        /\ OrderedPerOrigin(Outgoing(r))
        /\ OrderedPerOrigin(wire[r])

\* C3 witness: a recipient's transport was written two events of one
\* originator, and between them an event of another session
C3_Witness ==
    \E r \in Conns :
        /\ Len(wire[r]) = 3
        /\ wire[r][1].origin = wire[r][3].origin
        /\ wire[r][1].origin # wire[r][2].origin
        /\ wire[r][1].fid < wire[r][3].fid

\* C4: the registry holds an identifier exactly when its session is past the
\* insert of line 72 and not past the remove of line 114, and it maps the
\* identifier to that session's channel.
C4_RegistryIffRegistered ==
    /\ DOMAIN users \subseteq {user_id[c] : c \in Assigned}
    /\ \A c \in Conns :
         /\ Registered(c) <=> (c \in Assigned /\ user_id[c] \in DOMAIN users)
         /\ Registered(c) => users[user_id[c]] = c

\* C4 witness: one session registered, one deregistered, one not yet registered
C4_Witness ==
    \E a, b, c \in Conns :
        /\ Registered(a) /\ rpc[b] = "done" /\ rpc[c] = "insert"
        /\ DOMAIN users = {user_id[a]}

\* C8: the identifiers handed out are pairwise distinct, each one is greater
\* than every identifier handed out before it, and the insert of line 72
\* never meets a key that is already in the registry.
C8_UniqueIncreasingIds ==
    /\ [](\A c, d \in Assigned : c # d => user_id[c] # user_id[d])
    /\ [](\A c \in Assigned : user_id[c] < NEXT_USER_ID)
    /\ [][\A c \in Conns :
            /\ user_id'[c] # user_id[c] =>
                 /\ user_id[c] = 0
                 /\ \A d \in Assigned : user_id[d] < user_id'[c]
            /\ (rpc[c] = "insert" /\ rpc'[c] # "insert") =>
                 user_id[c] \notin DOMAIN users]_vars

\* C8 witness: three connections have their identifiers and are registered
C8_Witness ==
    /\ Assigned = Conns
    /\ Cardinality(DOMAIN users) = 3

\* a session is Disconnected: deregistered, and both its loops have ended
Disconnected(c) ==
    /\ user_id[c] \notin DOMAIN users
    /\ rpc[c] = "done"
    /\ wpc[c] = "done"

\* a step of some task of the server (the clients' steps are ConnectUser,
\* Recv, RecvErr and RecvEnd)
TaskNext ==
    \E c \in Conns :
        \/ Insert(c)
        \/ Decode(c)
        \/ ReadLock(c)
        \/ \E uid \in todo[c] : FanoutStep(c, uid)
        \/ FanoutDone(c)
        \/ Remove(c)
        \/ DeliverNext(c)
        \/ DeliverEnd(c)
        \/ WriteOk(c)
        \/ WriteErr(c)

\* no task of the server can take a step: all of them wait for a client
Quiescent == ~ENABLED TaskNext

\* C5, as claimed: a session whose delivery task met a write failure gets
\* Disconnected without its inbound stream ending; so when every task of
\* the server has come to rest, such a session is Disconnected.
C5_WriteFailureDisconnects ==
    \A c \in Conns : (werrs[c] > 0 /\ Quiescent) => Disconnected(c)

\* C5, amended: a write failure of the delivery task is printed and the
\* message dropped; the delivery task goes on with the next message, the
\* registry and every read loop are left as they are.  An identifier leaves
\* the registry only through user_disconnected, after the read loop of its
\* session has ended, and a delivery task ends only after that.
C5_WriteFailureKeepsSession ==
    /\ [][\A c \in Conns : werrs'[c] > werrs[c] =>
            /\ wpc'[c] = "recv"
            /\ users' = users
            /\ rpc' = rpc]_vars
    /\ [][\A c \in Conns :
            (c \in Assigned /\ user_id[c] \in DOMAIN users /\ user_id[c] \notin DOMAIN users')
               => rpc[c] = "disc"]_vars
    /\ [](\A c \in Conns : wpc[c] = "done" => rpc[c] = "done")

\* C5 witness: the first message of a session was lost to a write failure,
\* the second one is written, and the session is registered and reading
C5_Witness ==
    \E c \in Conns :
        /\ werrs[c] = 1
        /\ rpc[c] = "read"
        /\ Len(pushed[c]) = 2
        /\ wire[c] = <<pushed[c][2]>>

\* C6: once the inbound stream of a session has ended or failed, the session
\* gets Disconnected: its identifier leaves the registry and both its loops
\* end.
C6_StreamEndDisconnects ==
    \A c \in Conns : (rpc[c] = "disc") ~> Disconnected(c)

\* C6 witness: a session that was sent an event is Disconnected
C6_Witness ==
    \E c \in Conns : Disconnected(c) /\ pushed[c] # <<>> /\ c \in Assigned

\* the step of send_user_message that drops a message that does not decode
DropsFrame(c) ==
    /\ rpc[c] = "msg"
    /\ ~IsOk(Parse(cur[c].frame))
    /\ rpc'[c] # "msg"

\* C9: a message that does not decode is dropped and nothing else: the read
\* loop waits for the next message, and the registry, the channels and the
\* delivery tasks are as before.  A session that dropped a message stays
\* registered, with its delivery task running, until its inbound stream
\* ends, and its later fan-outs reach every other registered session.
C9_DecodeErrorKeepsSession ==
    /\ [][\A c \in Conns : DropsFrame(c) =>
            /\ rpc'[c] = "read"
            /\ \A d \in Conns \ {c} : rpc'[d] = rpc[d]
            /\ users' = users
            /\ wpc' = wpc /\ queue' = queue /\ pushed' = pushed /\ wire' = wire]_vars
    /\ [](\A c \in Conns :
            (decodeErrs[c] # {} /\ rpc[c] \in {"read", "msg", "rlock", "fanout"}) =>
                /\ user_id[c] \in DOMAIN users
                /\ ReceiverAlive(c))
    /\ [](\A c \in Conns :
            (decodeErrs[c] # {} /\ rpc[c] = "fanout" /\ todo[c] = {}) =>
                \A uid \in DOMAIN users \ {user_id[c]} :
                    CopiesOf(pushed[users[uid]], cur[c].fid) = 1)

\* C9 witness: a session dropped a message and then sent an event of its to
\* another session
C9_Witness ==
    \E c, r \in Conns : \E f \in decodeErrs[c] : \E i \in DOMAIN pushed[r] :
        /\ pushed[r][i].origin = user_id[c]
        /\ pushed[r][i].fid > f

(***************************************************************************)
(* The wire schema, as the interface description states it: the three      *)
(* shapes, and the ways in which a payload can miss them.                  *)
(***************************************************************************)
\* an object with exactly these keys, each once
ExactKeys(f, keys) ==
    /\ Len(f) = Cardinality(keys)
    /\ \A k \in keys : KeyCount(f, k) = 1

SchemaPoint(v) ==
    IsArr(v) /\ Len(v.arr) = 2 /\ \A i \in 1..2 : IsInt(v.arr[i]) \/ IsFloat(v.arr[i])

SchemaField(name, v) ==
    CASE name \in {"prev", "cur"} -> SchemaPoint(v)
      [] name = "color" -> IsStr(v)
      [] name = "brush_size" -> IsInt(v) /\ v.int >= 0

SchemaKeys(type) ==
    CASE type = "Draw" -> {"prev", "cur", "color", "brush_size"}
      [] type = "Erase" -> {"prev", "cur", "brush_size"}
      [] type = "Clear" -> {}

\* the payload has one of the three shapes, and nothing more
MatchesSchema(msg) ==
    /\ IsText(msg)
    /\ IsObj(msg.text)
    /\ KeyCount(msg.text.obj, "type") = 1
    /\ IsStr(KeyValue(msg.text.obj, "type"))
    /\ LET type == KeyValue(msg.text.obj, "type").str
       IN  /\ type \in {"Draw", "Erase", "Clear"}
           /\ IF type = "Clear" THEN ExactKeys(msg.text.obj, {"type"})
              ELSE /\ ExactKeys(msg.text.obj, {"type", "data"})
                   /\ IsObj(KeyValue(msg.text.obj, "data"))
                   /\ ExactKeys(KeyValue(msg.text.obj, "data").obj, SchemaKeys(type))
                   /\ \A k \in SchemaKeys(type) :
                        SchemaField(k, KeyValue(KeyValue(msg.text.obj, "data").obj, k))

\* the payload is no text, or no JSON
NotJson(msg) == ~IsText(msg) \/ msg.text = JGarbage

\* the payload is an object whose "type" is missing or names none of the three
BadDiscriminant(msg) ==
    /\ IsText(msg) /\ IsObj(msg.text)
    /\ \/ KeyCount(msg.text.obj, "type") = 0
       \/ /\ KeyCount(msg.text.obj, "type") = 1
          /\ \/ ~IsStr(KeyValue(msg.text.obj, "type"))
             \/ KeyValue(msg.text.obj, "type").str \notin {"Draw", "Erase", "Clear"}

\* the payload is a Draw or an Erase whose data object lacks a field of the
\* schema, or has one of the wrong type
BadField(msg) ==
    /\ IsText(msg) /\ IsObj(msg.text)
    /\ KeyCount(msg.text.obj, "type") = 1
    /\ KeyValue(msg.text.obj, "type") \in {JStr("Draw"), JStr("Erase")}
    /\ KeyCount(msg.text.obj, "data") = 1
    /\ IsObj(KeyValue(msg.text.obj, "data"))
    /\ LET data == KeyValue(msg.text.obj, "data").obj
       IN  \E k \in SchemaKeys(KeyValue(msg.text.obj, "type").str) :
              \/ KeyCount(data, k) = 0
              \/ KeyCount(data, k) = 1 /\ ~SchemaField(k, KeyValue(data, k))

Malformed(msg) == NotJson(msg) \/ BadDiscriminant(msg) \/ BadField(msg)

\* C10, as claimed: a payload that does not have exactly one of the three
\* shapes is never sent into a channel.
C10_OnlyExactShapesRelayed ==
    \A c \in Conns : \A i \in DOMAIN pushed[c] : MatchesSchema(pushed[c][i].frame)

\* C10, amended: a frame that is no text, a text that is no JSON, a missing
\* or unknown "type", and a Draw or Erase whose data object lacks a field or
\* has a field of the wrong type do not decode: no event is made of them and
\* nothing is sent into any channel.  A payload with keys beyond the schema
\* does decode; the keys are skipped, and the text sent on has exactly the
\* shape of the schema.
C10_MalformedRejected ==
    /\ [][\A c \in Conns :
            (rpc[c] = "msg" /\ Malformed(cur[c].frame) /\ rpc'[c] # "msg") =>
                /\ rpc'[c] = "read"
                /\ cur'[c] = NoMsg
                /\ decodeErrs'[c] = decodeErrs[c] \cup {cur[c].fid}
                /\ queue' = queue /\ pushed' = pushed]_vars
    /\ [](\A c \in Conns :
            /\ rpc[c] \in {"rlock", "fanout"} => ~Malformed(cur[c].frame)
            /\ \A i \in DOMAIN pushed[c] :
                 /\ ~Malformed(pushed[c][i].frame)
                 /\ MatchesSchema(pushed[c][i].msg))

\* C10 witness: two frames were dropped, and no channel was sent anything
C10_Witness ==
    /\ \E c \in Conns : Cardinality(decodeErrs[c]) = 2
    /\ \A c \in Conns : pushed[c] = <<>> /\ rpc[c] = "read"

\* the step of user_disconnected of session c that removes its entry
Disconnects(c) == rpc[c] = "disc" /\ rpc'[c] = "done"

\* C11: user_disconnected of a session removes the entry of its identifier
\* and nothing else: every other entry of the registry, every channel and
\* every delivery task, and the read loop of every other session are as
\* before.  No other session ends because of it: a read loop ends only on
\* its own inbound stream, a delivery task only after the remove of its own
\* session.
C11_DisconnectChangesOnlyItsSession ==
    /\ [][\A c \in Conns : Disconnects(c) =>
            /\ DOMAIN users' = DOMAIN users \ {user_id[c]}
            /\ \A k \in DOMAIN users' : users'[k] = users[k]
            /\ queue' = queue /\ hand' = hand /\ wire' = wire /\ pushed' = pushed
            /\ wpc' = wpc
            /\ \A d \in Conns \ {c} :
                 rpc'[d] = rpc[d] /\ cur'[d] = cur[d] /\ todo'[d] = todo[d]]_vars
    /\ [][\A d \in Conns :
            /\ (rpc[d] # "disc" /\ rpc'[d] = "disc") => rpc[d] = "read"
            /\ (wpc[d] # "done" /\ wpc'[d] = "done") => rpc[d] = "done"]_vars

\* C11 witness: a session is gone while another one is registered, with a
\* message in its channel and its delivery task in a write
C11_Witness ==
    \E c, d \in Conns :
        /\ c # d
        /\ rpc[c] = "done"
        /\ rpc[d] = "read" /\ user_id[d] \in DOMAIN users
        /\ wpc[d] = "write" /\ queue[d] # <<>>

\* the entries by which two registries differ
RegistryDiff(m1, m2) ==
    {k \in DOMAIN m1 \cup DOMAIN m2 :
        k \notin DOMAIN m1 \/ k \notin DOMAIN m2 \/ m1[k] # m2[k]}

\* C12: a fan-out holds a read guard from before its first send to after its
\* last one, and the registry does not change while any read guard is held:
\* the entries a fan-out has sent to, its own aside, and the entries it has
\* still to visit are at every moment the registry as it is.  A step that
\* changes the registry is taken with no guard held and changes one entry.
C12_FanoutSeesOneRegistry ==
    /\ [](/\ readers = {k \in Conns : rpc[k] = "fanout"}
          /\ \A k \in readers :
                /\ todo[k] \subseteq DOMAIN users
                /\ {uid \in DOMAIN users : CopiesOf(pushed[users[uid]], cur[k].fid) = 1}
                     = (DOMAIN users \ todo[k]) \ {user_id[k]})
    /\ [][readers # {} => users' = users]_vars
    /\ [][users' # users =>
            /\ readers = {} /\ readers' = {}
            /\ Cardinality(RegistryDiff(users, users')) = 1]_vars

\* C12 witness: two fan-outs hold read guards at once, one of them over, and
\* the third session, which has been sent that event, waits to remove its
\* entry
C12_Witness ==
    \E k1, k2, c \in Conns :
        /\ k1 # k2
        /\ readers = {k1, k2}
        /\ todo[k1] = {}
        /\ rpc[c] = "disc"
        /\ DOMAIN users = {user_id[k1], user_id[k2], user_id[c]}
        /\ CopiesOf(pushed[c], cur[k1].fid) = 1

\* the messages a connection holds or has been written: in its channel, in
\* the hand of its delivery task, on its transport
Held(c) ==
    {queue[c][i] : i \in DOMAIN queue[c]}
        \cup {wire[c][i] : i \in DOMAIN wire[c]}
        \cup (IF IsMsg(hand[c]) THEN {hand[c]} ELSE {})

\* C13: every message sent into a channel is the encoding of the event that
\* one inbound frame of another session decoded to: the frame decodes, the
\* text is a text frame that decodes to the same event, and its originator
\* is a session other than the one the channel belongs to.  A frame that did
\* not decode is in no channel.  What a connection has in its channel, in
\* the hand of its delivery task and on its transport are messages sent into
\* its channel, and no more of them than were sent.
C13_OnlyEventsOfOthers ==
    \A c \in Conns :
        /\ \A i \in DOMAIN pushed[c] :
             LET m == pushed[c][i]
             IN  /\ m.fid \in 1..nframes
                 /\ IsOk(Parse(m.frame))
                 /\ IsText(m.msg)
                 /\ from_str(m.msg.text) = Parse(m.frame)
                 /\ \E k \in Assigned \ {c} : m.origin = user_id[k]
                 /\ \A k \in Conns : m.fid \notin decodeErrs[k]
        /\ Held(c) \subseteq {pushed[c][i] : i \in DOMAIN pushed[c]}
        /\ Len(queue[c]) + Len(wire[c]) + (IF IsMsg(hand[c]) THEN 1 ELSE 0)
             <= Len(pushed[c])

\* C13 witness: a session that dropped a frame and has sent an event has
\* nothing in its own channel, and the other one has the event on its
\* transport and nothing else
C13_Witness ==
    \E c, r \in Conns :
        /\ decodeErrs[c] # {}
        /\ pushed[c] = <<>>
        /\ Len(wire[r]) = 1 /\ Len(pushed[r]) = 1
        /\ wire[r][1].origin = user_id[c]
        /\ wire[r][1].frame = DrawExtraFrame

\* C14: a send into a channel waits for nothing: whatever the channels
\* hold, a fan-out can take the turn of every entry it has still to visit,
\* and drop its guard when none is left; so a fan-out that is scheduled
\* comes to its end even when no delivery task takes a step any more.
C14_BroadcastNeverWaits ==
    /\ [](\A k \in Conns : rpc[k] = "fanout" =>
            /\ \A uid \in todo[k] : ENABLED FanoutStep(k, uid)
            /\ todo[k] = {} => ENABLED FanoutDone(k))
    /\ \A k \in Conns : (rpc[k] = "fanout") ~> (rpc[k] = "read")

\* C14 witness: a fan-out is over and has sent a second message into the
\* channel of a session whose delivery task has not taken the first one
C14_Witness ==
    \E k, r \in Conns :
        /\ rpc[k] = "fanout" /\ todo[k] = {}
        /\ Len(queue[r]) = 2
        /\ queue[r][2].fid = cur[k].fid
        /\ wpc[r] = "recv" /\ wire[r] = <<>>

\* the members of a JSON object are these keys, in this order
KeysInOrder(f, keys) ==
    Len(f) = Len(keys) /\ \A i \in DOMAIN keys : f[i][1] = keys[i]

\* a point with both coordinates written with a fraction
FractionPoint(v) ==
    IsArr(v) /\ Len(v.arr) = 2 /\ \A i \in 1..2 : IsFloat(v.arr[i])

\* the payload is in canonical form: the keys of the schema and no other, in
\* the order of the schema, and every coordinate written with a fraction
IsCanonical(msg) ==
    /\ MatchesSchema(msg)
    /\ LET type == KeyValue(msg.text.obj, "type").str
       IN  type # "Clear" =>
             LET data == KeyValue(msg.text.obj, "data").obj
             IN  /\ KeysInOrder(msg.text.obj, <<"type", "data">>)
                 /\ KeysInOrder(data, IF type = "Draw" THEN DrawFields ELSE EraseFields)
                 /\ FractionPoint(KeyValue(data, "prev"))
                 /\ FractionPoint(KeyValue(data, "cur"))

\* C15, as claimed: the text sent into a channel is the inbound payload
C15_PayloadUnchanged ==
    \A c \in Conns : \A i \in DOMAIN pushed[c] : pushed[c][i].msg = pushed[c][i].frame

\* C15, amended: the text sent into a channel is the canonical form of the
\* event the inbound payload spells: it is in canonical form, it decodes to
\* the event the payload decodes to, and it is the payload itself exactly
\* when the payload is in canonical form.
C15_CanonicalFormRelayed ==
    \A c \in Conns : \A i \in DOMAIN pushed[c] :
        LET m == pushed[c][i]
        IN  /\ IsCanonical(m.msg)
            /\ from_str(m.msg.text) = from_str(m.frame.text)
            /\ IsCanonical(m.frame) <=> m.msg = m.frame

\* the payload of the interface description's scenario:
\* {"type":"Draw","data":{"prev":[0,0],"cur":[1,1],"color":"#000000","brush_size":4}}
ScenarioFrame ==
    EventFrame([type |-> "Draw", prev |-> <<0, 0>>, cur |-> <<1, 1>>,
                color |-> "#000000", brush_size |-> 4], FALSE)

\* C15 witness: both other sessions were sent the scenario's Draw, with
\* its coordinates written as 0.0 and 1.0
C15_Witness ==
    \E k \in Conns :
        /\ rpc[k] = "fanout" /\ todo[k] = {}
        /\ cur[k].frame = ScenarioFrame
        /\ \A r \in Conns \ {k} :
             /\ Len(pushed[r]) = 1
             /\ pushed[r][1].frame = ScenarioFrame
             /\ pushed[r][1].msg # ScenarioFrame
             /\ pushed[r][1].msg =
                  EventFrame([type |-> "Draw", prev |-> <<0, 0>>, cur |-> <<1, 1>>,
                              color |-> "#000000", brush_size |-> 4], TRUE)

\* C16: the encoding of an event decodes to that event.  Every frame a
\* session handles spells an event of Events; it decodes to that event; the
\* encoding of the event is its spelling with fractions, and decodes to the
\* event again.  No frame is dropped.
C16_RoundTrip ==
    \A c \in Conns :
        /\ decodeErrs[c] = {}
        /\ rpc[c] \in {"msg", "rlock", "fanout"} =>
             LET r == Parse(cur[c].frame)
             IN  /\ IsOk(r)
                 /\ r.ok \in Events
                 /\ cur[c].frame \in {EventFrame(r.ok, TRUE), EventFrame(r.ok, FALSE)}
                 /\ TextFrame(to_string(r.ok)) = EventFrame(r.ok, TRUE)
                 /\ from_str(to_string(r.ok)) = Decoded(r.ok)
                 /\ from_str(to_string(r.ok)) = r

\* C16 witness: the encoding of an Erase was received, decoded and encoded
\* again, and the same text is sent on
C16_Witness ==
    \E c \in Conns :
        /\ rpc[c] = "rlock"
        /\ cur[c].frame =
             TextFrame(to_string([type |-> "Erase", prev |-> <<0, 1>>, cur |-> <<1, 0>>,
                                  brush_size |-> 0]))
        /\ cur[c].msg = cur[c].frame

\* how many messages the delivery task of c has taken from its channel
Taken(c) == Len(pushed[c]) - Len(queue[c])

\* where in the messages sent into the channel of c the message m stands
PushedAt(c, m) == CHOOSE i \in DOMAIN pushed[c] : pushed[c][i] = m

\* C17: the channel of a session holds, in the order they were sent, the
\* messages sent into it that its delivery task has not taken: none is lost
\* and none is there twice, whether the session is registered or not.  The
\* delivery task takes the message at the head, hands it to one write on its
\* own transport, and takes the next one when that write has ended; a write
\* that succeeds puts the message on the transport, so the transport has, in
\* the order they were sent, the messages taken but those whose write
\* failed.  Under fair scheduling every message sent into a channel is taken
\* and its write comes to an end.
C17_DeliveredOnceInOrder ==
    /\ [](\A c \in Conns :
            /\ Taken(c) >= 0
            /\ queue[c] = SubSeq(pushed[c], Taken(c) + 1, Len(pushed[c]))
            /\ IsMsg(hand[c]) <=> wpc[c] = "write"
            /\ IsMsg(hand[c]) => hand[c] = pushed[c][Taken(c)]
            /\ Len(wire[c]) + werrs[c] + (IF IsMsg(hand[c]) THEN 1 ELSE 0) = Taken(c)
            /\ \A i \in DOMAIN wire[c] :
                 /\ \E j \in 1..Taken(c) : pushed[c][j] = wire[c][i]
                 /\ \A j \in DOMAIN wire[c] :
                      i < j => PushedAt(c, wire[c][i]) < PushedAt(c, wire[c][j])
            /\ werrs[c] = 0 => wire[c] = SubSeq(pushed[c], 1, Len(wire[c])))
    /\ [][\A c \in Conns :
            /\ (IsMsg(hand'[c]) /\ hand'[c] # hand[c]) =>
                 /\ queue[c] # <<>>
                 /\ hand'[c] = Head(queue[c])
                 /\ queue'[c] = Tail(queue[c])
            /\ wire'[c] # wire[c] => wire'[c] = Append(wire[c], hand[c])
            /\ (Len(queue'[c]) < Len(queue[c])) => hand'[c] = Head(queue[c])]_vars
    /\ \A c \in Conns : \A n \in 1..LiveFrames :
         (Len(pushed[c]) >= n) ~> (Len(wire[c]) + werrs[c] >= n)

\* C17 witness: a registered session was sent two messages and has both on
\* its transport, in the order in which they were sent
C17_Witness ==
    \E c \in Conns :
        /\ rpc[c] = "read" /\ user_id[c] \in DOMAIN users
        /\ Len(pushed[c]) = 2
        /\ wire[c] = pushed[c]
        /\ wpc[c] = "recv"

\* C18: while the delivery task of a session is in a write to the transport,
\* the read loop of the session can take its next step, wherever it stands:
\* read a frame, decode it, take the read guard, send to the next entry, end
\* the fan-out.  The steps of the read loop leave the write as it is.
C18_ReadLoopRunsDuringWrite ==
    /\ [](\A c \in Conns : wpc[c] = "write" =>
            /\ rpc[c] = "read" => \A msg \in Frames : ENABLED Recv(c, msg)
            /\ rpc[c] = "msg" => ENABLED Decode(c)
            /\ rpc[c] = "rlock" => ENABLED ReadLock(c)
            /\ rpc[c] = "fanout" =>
                 /\ \A uid \in todo[c] : ENABLED FanoutStep(c, uid)
                 /\ todo[c] = {} => ENABLED FanoutDone(c))
    /\ [][\A c \in Conns :
            (wpc[c] = "write" /\ rpc'[c] # rpc[c]) =>
                wpc'[c] = "write" /\ hand'[c] = hand[c]]_vars

\* C18 witness: the delivery task of a session is in its first write while
\* the read loop of the session is in the middle of a fan-out, one session
\* sent to and one still to visit
C18_Witness ==
    \E c, r \in Conns :
        /\ wpc[c] = "write" /\ wire[c] = <<>> /\ werrs[c] = 0
        /\ rpc[c] = "fanout"
        /\ todo[c] # {} /\ user_id[c] \notin todo[c]
        /\ r # c
        /\ CopiesOf(pushed[r], cur[c].fid) = 1

\* C19: the server keeps no event.  Nothing is held for a session before its
\* insert.  An event is sent into a channel only in a turn of its own
\* fan-out, for an entry of the registry, so only to a session that is in
\* the registry then; a session that is not in the registry during a fan-out
\* has no copy of its event at that time, and is sent none later, the event
\* being nowhere once its fan-out is over.
C19_NoStoredEvents ==
    /\ [](\A c \in Conns :
            rpc[c] \in {"start", "insert"} =>
                pushed[c] = <<>> /\ queue[c] = <<>> /\ wire[c] = <<>> /\ hand[c] = NoMsg)
    /\ [](\A k, c \in Conns :
            (rpc[k] = "fanout" /\ user_id[c] \notin DOMAIN users) =>
                CopiesOf(pushed[c], cur[k].fid) = 0)
    /\ [][\A c \in Conns : pushed'[c] # pushed[c] =>
            /\ user_id[c] \in DOMAIN users /\ users[user_id[c]] = c
            /\ user_id[c] \in DOMAIN users'
            /\ \E k \in Conns :
                 /\ rpc[k] = "fanout" /\ rpc'[k] = "fanout"
                 /\ user_id[c] \in todo[k]
                 /\ Len(pushed'[c]) = Len(pushed[c]) + 1
                 /\ SubSeq(pushed'[c], 1, Len(pushed[c])) = pushed[c]
                 /\ pushed'[c][Len(pushed'[c])].fid = cur[k].fid]_vars
    /\ [][\A c \in Conns : queue'[c] # queue[c] =>
            IF pushed'[c] # pushed[c]
            THEN queue'[c] = Append(queue[c], pushed'[c][Len(pushed'[c])])
            ELSE queue[c] # <<>> /\ queue'[c] = Tail(queue[c])]_vars

\* C19 witness: a session sent two events; the first one went to a session
\* that was registered then, the second one to that session and to one that
\* registered in between, which has the second event and not the first
C19_Witness ==
    \E k, c, d \in Conns :
        /\ k # c /\ k # d /\ c # d
        /\ Len(pushed[d]) = 2 /\ Len(pushed[c]) = 1
        /\ pushed[d][1].origin = user_id[k] /\ pushed[d][2].origin = user_id[k]
        /\ pushed[c][1] = pushed[d][2]
        /\ wire[c] = pushed[c]
        /\ rpc[k] = "read"

\* C20: every entry of the registry leads to a channel whose delivery task
\* runs; a delivery task has ended only if its session's entry has been
\* removed and connect_user has returned, write failures or not; and no send
\* into a channel of the registry has ever failed.
C20_RegistryEntriesHaveConsumers ==
    /\ \A uid \in DOMAIN users : wpc[users[uid]] \in {"recv", "write"}
    /\ \A c \in Conns :
         /\ wpc[c] = "done" => rpc[c] = "done" /\ user_id[c] \notin DOMAIN users
         /\ (werrs[c] > 0 /\ rpc[c] # "done") => wpc[c] \in {"recv", "write"}
    /\ pushFailed = {}

\* C20 witness: a registered session whose first write failed has the next
\* message in its channel and its delivery task waiting for it, while the
\* delivery task of a session that left has ended
C20_Witness ==
    \E c, d \in Conns :
        /\ werrs[c] = 1 /\ wire[c] = <<>>
        /\ user_id[c] \in DOMAIN users
        /\ Len(pushed[c]) = 2 /\ queue[c] = <<pushed[c][2]>>
        /\ wpc[c] = "recv"
        /\ d # c /\ wpc[d] = "done"

====
